---- MODULE Spec2Model ----
(***************************************************************************)
(* Model of the Tasks component of Seikatsu (src/components/HeaderBar.tsx, *)
(* lines 87-680): the in-memory task list, the add-task input with its     *)
(* priority selector, and the per-row swipe-to-reveal-delete gesture.      *)
(*                                                                         *)
(* Strings the code inspects or builds (task titles, ids) are sequences of *)
(* one-character strings, so that trim() and toString() are computed.      *)
(* An Animated.Value is the record [value, running, toValue]: the number   *)
(* it holds, whether an animation is running on it, and that animation's   *)
(* toValue (equal to value when none runs).                                *)
(***************************************************************************)
EXTENDS Integers, Sequences, FiniteSets, TLC

VARIABLES
  tasks,                \* useState<Task[]>                       (l.107)
  newTask,              \* useState<string>, the input text        (l.112)
  showPrioritySelector, \* useState<boolean>                      (l.113)
  selectedPriority,     \* useState<1|2|3|4>                      (l.114)
  slideAnim,            \* Animated.Value of the selector         (l.115)
  swipeAnimations,      \* Record<string, Animated.Value>         (l.116)
  listeners,            \* touchmove/touchend closures on document (l.337)
  touching,             \* a finger is down (host input state)
  now,                  \* the clock read by Date.now()           (l.211)
  lastOp,               \* history: the handler that ran last, its inputs
  \* Journal (src/app/(tabs)/journal.tsx), hours in tenths of an hour
  sleepHours,           \* useState(8)                            (l.29)
  renderedSleepHours,   \* sleepHours as the rendered handlers see it
  sleepCalls,           \* handler calls since the last render
  \* SettingsPage (src/unnamed/part_000)
  user,                 \* useState(null)                         (l.278)
  loading,              \* useState(true)                         (l.279)
  isAuthenticated,      \* useState(true)                         (l.281)
  settingsLog,          \* history: what each handler call did, in order
  \* Journal form (src/app/(tabs)/journal.tsx)
  selectedDate,         \* useState(new Date())                   (l.26)
  showDatePicker,       \* useState(false)                        (l.27)
  selectedMood,         \* useState('')                           (l.28)
  fields,               \* the seven text states                  (l.32-38)
  journalOut,           \* what the last handleSubmit logged and alerted
  \* LoginPage (src/app/loginpage.tsx)
  isLoginMode,          \* useState(true)                         (l.22)
  formData,             \* useState({email, password, confirmPassword})
  showFAQ,              \* useState(false)                        (l.28)
  loginAlert,           \* the last Alert.alert of the login page
  \* Overview (src/components/home/Overview.tsx)
  currentSkillIndex,    \* useState(0)                            (l.132)
  translateX,           \* useState(new Animated.Value(0))        (l.133)
  \* GlobalHeader (src/components/HeaderBar.tsx)
  scrollYListener,      \* scrollY.addListener has been called     (l.14)
  globalTranslateY,     \* headerTranslateY                        (l.7)
  globalLastScrollY,    \* lastScrollY.current                     (l.8)
  \* HomeTabs (src/components/home/HomeTabs.tsx)
  activeTab,            \* useState("Overview")                    (l.9)
  tabTranslateY,        \* headerTranslateY                        (l.11)
  tabLastScrollY        \* lastScrollY.current                     (l.12)

vars == <<tasks, newTask, showPrioritySelector, selectedPriority, slideAnim,
          swipeAnimations, listeners, touching, now, lastOp,
          sleepHours, renderedSleepHours, sleepCalls,
          user, loading, isAuthenticated, settingsLog,
          selectedDate, showDatePicker, selectedMood, fields, journalOut,
          isLoginMode, formData, showFAQ, loginAlert,
          currentSkillIndex, translateX,
          scrollYListener, globalTranslateY, globalLastScrollY,
          activeTab, tabTranslateY, tabLastScrollY>>

\* the state of the Tasks component, and the state of the other components
tasksVars == <<tasks, newTask, showPrioritySelector, selectedPriority,
               slideAnim, swipeAnimations, listeners, touching, now>>
journalVars == <<sleepHours, renderedSleepHours, sleepCalls>>
settingsVars == <<user, loading, isAuthenticated, settingsLog>>
formVars == <<selectedDate, showDatePicker, selectedMood, fields, journalOut>>
loginVars == <<isLoginMode, formData, showFAQ, loginAlert>>
overviewVars == <<currentSkillIndex, translateX>>
headerVars == <<scrollYListener, globalTranslateY, globalLastScrollY,
                activeTab, tabTranslateY, tabLastScrollY>>
notTasksVars == <<journalVars, settingsVars, formVars, loginVars,
                  overviewVars, headerVars>>
notJournalVars == <<tasksVars, settingsVars, formVars, loginVars,
                    overviewVars, headerVars>>
notSettingsVars == <<tasksVars, journalVars, formVars, loginVars,
                     overviewVars, headerVars>>
notFormVars == <<tasksVars, settingsVars, loginVars, overviewVars,
                 headerVars>>
notLoginVars == <<tasksVars, journalVars, settingsVars, formVars,
                  overviewVars, headerVars>>
notOverviewVars == <<tasksVars, journalVars, settingsVars, formVars,
                     loginVars, headerVars>>
notHeaderVars == <<tasksVars, journalVars, settingsVars, formVars,
                   loginVars, overviewVars>>

----------------------------------------------------------------------------
(* Bounds of the model *)

Now0 == 1000          \* clock value when the component mounts
MaxTicks == 1         \* the clock advances at most this far
MaxTasks == 4         \* addTask is not offered beyond this list length
MaxListeners == 2     \* touch closures registered on document at once

MaxBatch == 2         \* handler calls the journal takes between renders
MaxCalls == 2         \* handler calls the settings page takes

(* Program constants *)

RevealDistance == 80        \* D : Math.max(-80, ...), toValue -80
DistanceThreshold == 40     \* T : translationX < -40
VelocityThreshold == 500    \* V : velocityX < -500
DefaultPriority == 3        \* useState(3), setSelectedPriority(3)

PanThreshold == 50          \* translationX < -50, translationX > 50
headerHeight == 80          \* GlobalHeader: const headerHeight = 80
tabHeaderHeight == 80       \* HomeTabs: const tabHeaderHeight = 80
TabHideOffset == 50         \* HomeTabs: currentScrollY > 50

Priorities == {1, 2, 3, 4}

\* the journal's hours, in tenths of an hour
Hours(h) == h * 10
InitialSleepHours == Hours(8)     \* useState(8)
MaxSleepHours == Hours(24)        \* hours <= 24, sleepHours < 24
HalfHour == Hours(1) \div 2       \* prev + 0.5, prev - 0.5

----------------------------------------------------------------------------
(* Input domains *)

WhiteSpace == {" ", "\t", "\n"}

Read == <<"R", "e", "a", "d">>

\* texts the user types: empty, whitespace only, plain, padded
Titles == { <<>>, <<"\t", " ">>, Read, <<" ", "a", " ">> }

\* priority buttons the user presses
PressedPriorities == {4}

\* touch positions: a gesture starts at clientX = StartX
StartX == 100
ClientXs == {0, 20, 50, 60, 90, 100, 130}

\* the finger's horizontal velocity when it is lifted
Velocities == {-600, -500, 0}

\* arguments of direct calls of handleSwipe and handleSwipeEnd
Translations == {-1000, -80, -50, -40, -10, 0, 30}
CallVelocities == {-600, -500, 0}
SwipeIds == { <<"1">>, <<"2">> }

\* texts that reach the sleep input's onChangeText
TypedSleep ==
  { <<>>, <<"a">>, <<"8">>, <<"0", ".", "2">>, <<"2", "3", ".", "5">>,
    <<"2", "3", ".", "8">>, <<"2", "4">>, <<"2", "5">>, <<"-", "1">> }

----------------------------------------------------------------------------
(* String helpers: String.prototype.trim and Number.prototype.toString *)

RECURSIVE TrimStart(_)
TrimStart(s) ==
  IF s # <<>> /\ Head(s) \in WhiteSpace THEN TrimStart(Tail(s)) ELSE s

RECURSIVE TrimEnd(_)
TrimEnd(s) ==
  IF s # <<>> /\ s[Len(s)] \in WhiteSpace
    THEN TrimEnd(SubSeq(s, 1, Len(s) - 1))
    ELSE s

Trim(s) == TrimEnd(TrimStart(s))

DigitChars == <<"0", "1", "2", "3", "4", "5", "6", "7", "8", "9">>

RECURSIVE DateNowToString(_)
DateNowToString(n) ==
  IF n < 10 THEN <<DigitChars[n + 1]>>
            ELSE DateNowToString(n \div 10) \o <<DigitChars[(n % 10) + 1]>>

Min(a, b) == IF a < b THEN a ELSE b
Max(a, b) == IF a > b THEN a ELSE b

----------------------------------------------------------------------------
(* The task list *)

InitialTasks ==
  \* titles abbreviated to their first letter
  << [id |-> <<"1">>, title |-> <<"F">>, completed |-> FALSE, priority |-> 1],
     [id |-> <<"2">>, title |-> <<"R">>, completed |-> TRUE,  priority |-> 3],
     [id |-> <<"3">>, title |-> <<"W">>, completed |-> FALSE, priority |-> 2] >>

TaskIds(ts) == { ts[i].id : i \in DOMAIN ts }

\* ids of the rows the user presses to toggle, and of those whose Delete
\* is pressed: an initial row and the rows created at the first clock value;
\* a press on a row that is not (or no longer) in the list gives the calls
\* with an id that matches no task
ToggleIds == { <<"2">>, DateNowToString(Now0) }
DeleteIds == { <<"1">>, DateNowToString(Now0) }

RECURSIVE Filter(_, _)
Filter(ts, id) ==
  IF ts = <<>> THEN <<>>
  ELSE IF Head(ts).id # id THEN <<Head(ts)>> \o Filter(Tail(ts), id)
       ELSE Filter(Tail(ts), id)

\* splice(findIndex(...), 1): without a match the index is -1 and the last
\* task goes
FilterOutSplice(ts, id) ==
  IF id \in TaskIds(ts) \/ ts = <<>> THEN Filter(ts, id)
  ELSE SubSeq(ts, 1, Len(ts) - 1)

\* prev.filter((task) => task.id !== id)
FilterOut(ts, id) == Filter(ts, id)

MarkCompleted(t) == [t EXCEPT !.completed = TRUE]

\* { ...task, completed: !task.completed }
FlipCompleted(t) == [t EXCEPT !.completed = ~t.completed]

\* toggling, then completed tasks moved behind the pending ones
ToggleInSinking(ts, id) ==
  LET flipped == [i \in DOMAIN ts |->
                    IF ts[i].id = id THEN FlipCompleted(ts[i]) ELSE ts[i]]
  IN  SelectSeq(flipped, LAMBDA t : ~t.completed)
        \o SelectSeq(flipped, LAMBDA t : t.completed)

\* prev.map((task) => task.id === id ? {...} : task)
ToggleIn(ts, id) ==
  [i \in DOMAIN ts |-> IF ts[i].id = id THEN FlipCompleted(ts[i]) ELSE ts[i]]

\* the counts the header and the footer render
CompletedCount(ts) == Len(SelectSeq(ts, LAMBDA t : t.completed))
PendingCount(ts) == Len(SelectSeq(ts, LAMBDA t : ~t.completed))
TotalCount(ts) == Len(ts)

NewTaskRecord(clock, title, priority) ==
  [id |-> DateNowToString(clock), title |-> title, completed |-> FALSE,
   priority |-> priority]

PrependTask(ts, clock, title, priority) ==
  << NewTaskRecord(clock, title, priority) >> \o ts

AppendTask(ts, clock, title, priority) ==
  ts \o << NewTaskRecord(clock, title, priority) >>

----------------------------------------------------------------------------
(* Animated values *)

NewAnimatedValue == [value |-> 0, running |-> FALSE, toValue |-> 0]

SetValue(v, x) == [value |-> x, running |-> FALSE, toValue |-> x]

StartAnimation(v, target) == [v EXCEPT !.running = TRUE, !.toValue = target]

FinishAnimation(v) == [value |-> v.toValue, running |-> FALSE,
                       toValue |-> v.toValue]

ClampLeftOnly(translationX) == Max(-RevealDistance, translationX)

ClampTranslation(translationX) ==
  Min(0, Max(-RevealDistance, translationX))

ShouldOpenInclusive(translationX, velocityX) ==
  translationX <= -DistanceThreshold \/ velocityX <= -VelocityThreshold

ShouldOpen(translationX, velocityX) ==
  translationX < -DistanceThreshold \/ velocityX < -VelocityThreshold

TargetValue(translationX, velocityX) ==
  IF ShouldOpen(translationX, velocityX) THEN -RevealDistance ELSE 0

\* renderTask calls getSwipeAnimation for every row: after a render every
\* task id has an entry, a missing one being created at 0
Render(anims, ts) ==
  [id \in (DOMAIN anims) \cup TaskIds(ts) |->
     IF id \in DOMAIN anims THEN anims[id] ELSE NewAnimatedValue]

KeepKey(anims, id) == anims

\* const { [id]: removed, ...rest } = prev
RemoveKey(anims, id) == [k \in (DOMAIN anims) \ {id} |-> anims[k]]

\* lastOp: the handler's name, the id it was called with, whether it took
\* its effective branch (the id matched, the title was accepted), and two
\* numeric inputs (a position or translation, a velocity); for toggleTask
\* x is 2 on the second of two successive calls with the same id, else 1
Op(name, id, hit, x, v) ==
  [op |-> name, id |-> id, hit |-> hit, x |-> x, v |-> v]

NoId == <<>>

\* useState(null) of the settings page
NoUser == "null"

\* a Date is an instant: its calendar day in the device's time zone (what
\* the picker and formatDate show) and its calendar day in UTC (what
\* toISOString gives).  Tonight is an instant of the next local day that is
\* still today in UTC.
Date(local, utc) == [local |-> local, utc |-> utc]
Today == Date("2026-11-01", "2026-11-01")
Tonight == Date("2026-11-02", "2026-11-01")
Tomorrow == Date("2026-11-02", "2026-11-02")

\* the form of the login page, and the alert before any was raised
EmptyFormData == [email |-> "", password |-> "", confirmPassword |-> ""]
NoAlert == [title |-> "", message |-> ""]

\* the text states of the journal form
FieldNames == {"strength", "learning", "relationships", "spirituality",
               "career", "nutrition", "reflection"}
EmptyFields == [name \in FieldNames |-> ""]

----------------------------------------------------------------------------
Init ==
  /\ tasks = InitialTasks
  /\ newTask = <<>>
  /\ showPrioritySelector = FALSE
  /\ selectedPriority = DefaultPriority
  /\ slideAnim = NewAnimatedValue
  /\ swipeAnimations = Render(<<>>, InitialTasks)
  /\ listeners = <<>>
  /\ touching = FALSE
  /\ now = Now0
  /\ lastOp = Op("mount", NoId, FALSE, 0, 0)
  /\ sleepHours = InitialSleepHours
  /\ renderedSleepHours = InitialSleepHours
  /\ sleepCalls = 0
  /\ user = NoUser
  /\ loading = TRUE
  /\ isAuthenticated = TRUE
  /\ settingsLog = <<>>
  /\ selectedDate = Today
  /\ showDatePicker = FALSE
  /\ selectedMood = ""
  /\ fields = EmptyFields
  /\ journalOut = <<>>
  /\ isLoginMode = TRUE
  /\ formData = EmptyFormData
  /\ showFAQ = FALSE
  /\ loginAlert = NoAlert
  /\ currentSkillIndex = 0
  /\ translateX = NewAnimatedValue
  /\ scrollYListener = FALSE
  /\ globalTranslateY = NewAnimatedValue
  /\ globalLastScrollY = 0
  /\ activeTab = "Overview"
  /\ tabTranslateY = NewAnimatedValue
  /\ tabLastScrollY = 0

----------------------------------------------------------------------------
(* The add-task input and the priority selector *)

KeepPriority(priority) == priority

\* setSelectedPriority(3) at the end of addTask
ResetPriority(priority) == DefaultPriority

IsBlankNoTrim(s) == s = <<>>

\* !newTask.trim()
IsBlank(s) == Trim(s) = <<>>

\* a close animation is running on slideAnim: its start() carries the
\* completion callback setShowPrioritySelector(false), which Animated also
\* calls when the animation is stopped by the start of another one
CloseRunning(a) == a.running /\ a.toValue = 0

\* openPrioritySelector: the values of showPrioritySelector and slideAnim
OpenShow(a) == IF CloseRunning(a) THEN FALSE ELSE TRUE
OpenAnim(a) == StartAnimation(a, 1)

\* closePrioritySelector
CloseShow(show, a) == IF CloseRunning(a) THEN FALSE ELSE show
CloseAnim(a) == StartAnimation(a, 0)

\* TextInput onChangeText = setNewTask
ChangeText(t) ==
  /\ newTask' = t
  /\ lastOp' = Op("changeText", NoId, TRUE, 0, 0)
  /\ UNCHANGED notTasksVars
  /\ UNCHANGED <<tasks, showPrioritySelector, selectedPriority, slideAnim,
                 swipeAnimations, listeners, touching, now>>

handleAddClick ==
  /\ lastOp' = Op("handleAddClick", NoId, ~IsBlank(newTask), 0, 0)
  /\ IF IsBlank(newTask)
       THEN UNCHANGED <<showPrioritySelector, slideAnim>>
       ELSE /\ showPrioritySelector' = OpenShow(slideAnim)
            /\ slideAnim' = OpenAnim(slideAnim)
  /\ UNCHANGED notTasksVars
  /\ UNCHANGED <<tasks, newTask, selectedPriority, swipeAnimations,
                 listeners, touching, now>>

\* the four priority buttons are rendered only while the selector is shown
handlePrioritySelect(priority) ==
  /\ showPrioritySelector
  /\ selectedPriority' = priority
  /\ lastOp' = Op("handlePrioritySelect", NoId, TRUE, priority, 0)
  /\ UNCHANGED notTasksVars
  /\ UNCHANGED <<tasks, newTask, showPrioritySelector, slideAnim,
                 swipeAnimations, listeners, touching, now>>

\* a Cancel that also puts the priority back to its default
closePrioritySelectorAndReset ==
  /\ showPrioritySelector
  /\ showPrioritySelector' = CloseShow(showPrioritySelector, slideAnim)
  /\ slideAnim' = CloseAnim(slideAnim)
  /\ selectedPriority' = DefaultPriority
  /\ lastOp' = Op("closePrioritySelector", NoId, TRUE, 0, 0)
  /\ UNCHANGED notTasksVars
  /\ UNCHANGED <<tasks, newTask, swipeAnimations,
                 listeners, touching, now>>

\* the Cancel button, rendered only while the selector is shown
closePrioritySelector ==
  /\ showPrioritySelector
  /\ showPrioritySelector' = CloseShow(showPrioritySelector, slideAnim)
  /\ slideAnim' = CloseAnim(slideAnim)
  /\ lastOp' = Op("closePrioritySelector", NoId, TRUE, 0, 0)
  /\ UNCHANGED notTasksVars
  /\ UNCHANGED <<tasks, newTask, selectedPriority, swipeAnimations,
                 listeners, touching, now>>

\* the timing animation on slideAnim reaches its toValue
SlideAnimEnd ==
  /\ slideAnim.running
  /\ slideAnim' = FinishAnimation(slideAnim)
  /\ showPrioritySelector' =
       IF CloseRunning(slideAnim) THEN FALSE ELSE showPrioritySelector
  /\ lastOp' = Op("slideAnimEnd", NoId, TRUE, 0, 0)
  /\ UNCHANGED notTasksVars
  /\ UNCHANGED <<tasks, newTask, selectedPriority, swipeAnimations,
                 listeners, touching, now>>

\* the Create Task button, rendered only while the selector is shown
addTask ==
  /\ showPrioritySelector
  /\ IF IsBlank(newTask)
       THEN /\ lastOp' = Op("addTask", NoId, FALSE, 0, 0)
            /\ UNCHANGED <<tasks, newTask, showPrioritySelector,
                           selectedPriority, slideAnim, swipeAnimations>>
       ELSE /\ Len(tasks) < MaxTasks
            /\ tasks' = AppendTask(tasks, now, newTask, selectedPriority)
            /\ newTask' = <<>>
            /\ showPrioritySelector' =
                 CloseShow(showPrioritySelector, slideAnim)
            /\ slideAnim' = CloseAnim(slideAnim)
            /\ selectedPriority' = ResetPriority(selectedPriority)
            /\ swipeAnimations' = Render(swipeAnimations, tasks')
            /\ lastOp' = Op("addTask", DateNowToString(now), TRUE, 0, 0)
  /\ UNCHANGED notTasksVars
  /\ UNCHANGED <<listeners, touching, now>>

----------------------------------------------------------------------------
(* Toggle and delete *)

Orphan(ls, id) ==
  [i \in DOMAIN ls |->
     IF ls[i].id = id THEN [ls[i] EXCEPT !.orphan = TRUE] ELSE ls[i]]

\* a press on a row toggles it and also springs it back to closed
toggleTaskAndClose(id) ==
  /\ tasks' = ToggleIn(tasks, id)
  /\ swipeAnimations' =
       [k \in DOMAIN swipeAnimations |->
          IF k = id THEN StartAnimation(swipeAnimations[k], 0)
                    ELSE swipeAnimations[k]]
  /\ lastOp' = Op("toggleTask", id, id \in TaskIds(tasks),
                  IF lastOp.op = "toggleTask" /\ lastOp.id = id /\ lastOp.x = 1
                    THEN 2 ELSE 1, 0)
  /\ UNCHANGED notTasksVars
  /\ UNCHANGED <<newTask, showPrioritySelector, selectedPriority, slideAnim,
                 listeners, touching, now>>

toggleTask(id) ==
  /\ tasks' = ToggleIn(tasks, id)
  /\ lastOp' = Op("toggleTask", id, id \in TaskIds(tasks),
                  IF lastOp.op = "toggleTask" /\ lastOp.id = id /\ lastOp.x = 1
                    THEN 2 ELSE 1, 0)
  /\ UNCHANGED notTasksVars
  /\ UNCHANGED <<newTask, showPrioritySelector, selectedPriority, slideAnim,
                 swipeAnimations, listeners, touching, now>>

\* the Animated.Value of the deleted id leaves the map; a touch closure
\* registered for the row keeps its reference to it
deleteTask(id) ==
  /\ tasks' = FilterOut(tasks, id)
  /\ swipeAnimations' = Render(RemoveKey(swipeAnimations, id), tasks')
  /\ listeners' = Orphan(listeners, id)
  /\ lastOp' = Op("deleteTask", id, id \in TaskIds(tasks), 0, 0)
  /\ UNCHANGED notTasksVars
  /\ UNCHANGED <<newTask, showPrioritySelector, selectedPriority, slideAnim,
                 touching, now>>

\* the millisecond clock advances
Tick ==
  /\ now < Now0 + MaxTicks
  /\ now' = now + 1
  /\ lastOp' = Op("tick", NoId, TRUE, 0, 0)
  /\ UNCHANGED notTasksVars
  /\ UNCHANGED <<tasks, newTask, showPrioritySelector, selectedPriority,
                 slideAnim, swipeAnimations, listeners, touching>>

Next ==
  \/ \E t \in Titles : ChangeText(t)
  \/ handleAddClick
  \/ \E p \in PressedPriorities : handlePrioritySelect(p)
  \/ closePrioritySelector
  \/ SlideAnimEnd
  \/ addTask
  \/ \E id \in ToggleIds : toggleTask(id)
  \/ \E id \in DeleteIds : deleteTask(id)
  \/ Tick

Spec == Init /\ [][Next]_vars

\* the input row and the priority selector alone; a timing animation that
\* has been started runs to its end (duration: 300)
NextSelector ==
  \/ \E t \in Titles : ChangeText(t)
  \/ handleAddClick
  \/ \E priority \in PressedPriorities : handlePrioritySelect(priority)
  \/ closePrioritySelector
  \/ SlideAnimEnd
  \/ addTask

SpecSelector == Init /\ [][NextSelector]_vars /\ WF_vars(SlideAnimEnd)

----------------------------------------------------------------------------
(* Swipe handlers *)

\* getSwipeAnimation(taskId) finds the entry of taskId
HasSwipeAnimation(anims, taskId) == taskId \in DOMAIN anims

\* getSwipeAnimation on a miss: an entry at 0 is added to the map, and the
\* caller gets another new Animated.Value, which no row renders
AddSwipeAnimation(anims, taskId) ==
  [id \in (DOMAIN anims) \cup {taskId} |->
     IF id \in DOMAIN anims THEN anims[id] ELSE NewAnimatedValue]

HandleSwipeOn(anims, taskId, translationX) ==
  IF HasSwipeAnimation(anims, taskId)
    THEN [anims EXCEPT
            ![taskId] = SetValue(@, ClampTranslation(translationX))]
    ELSE AddSwipeAnimation(anims, taskId)

HandleSwipeEndOn(anims, taskId, translationX, velocityX) ==
  IF HasSwipeAnimation(anims, taskId)
    THEN [anims EXCEPT
            ![taskId] = StartAnimation(@, TargetValue(translationX, velocityX))]
    ELSE AddSwipeAnimation(anims, taskId)

\* every row is closed, not only the one asked for
CloseAllSwipes(anims, taskId) ==
  IF HasSwipeAnimation(anims, taskId)
    THEN [id \in DOMAIN anims |-> StartAnimation(anims[id], 0)]
    ELSE AddSwipeAnimation(anims, taskId)

CloseSwipeOn(anims, taskId) ==
  IF HasSwipeAnimation(anims, taskId)
    THEN [anims EXCEPT ![taskId] = StartAnimation(@, 0)]
    ELSE AddSwipeAnimation(anims, taskId)

\* direct calls
closeSwipe(taskId) ==
  /\ swipeAnimations' = CloseSwipeOn(swipeAnimations, taskId)
  /\ lastOp' = Op("closeSwipe", taskId,
                  HasSwipeAnimation(swipeAnimations, taskId), 0, 0)
  /\ UNCHANGED notTasksVars
  /\ UNCHANGED <<tasks, newTask, showPrioritySelector, selectedPriority,
                 slideAnim, listeners, touching, now>>

handleSwipe(taskId, translationX) ==
  /\ swipeAnimations' = HandleSwipeOn(swipeAnimations, taskId, translationX)
  /\ lastOp' = Op("handleSwipe", taskId,
                  HasSwipeAnimation(swipeAnimations, taskId), translationX, 0)
  /\ UNCHANGED notTasksVars
  /\ UNCHANGED <<tasks, newTask, showPrioritySelector, selectedPriority,
                 slideAnim, listeners, touching, now>>

handleSwipeEnd(taskId, translationX, velocityX) ==
  /\ swipeAnimations' =
       HandleSwipeEndOn(swipeAnimations, taskId, translationX, velocityX)
  /\ lastOp' = Op("handleSwipeEnd", taskId,
                  HasSwipeAnimation(swipeAnimations, taskId),
                  translationX, velocityX)
  /\ UNCHANGED notTasksVars
  /\ UNCHANGED <<tasks, newTask, showPrioritySelector, selectedPriority,
                 slideAnim, listeners, touching, now>>

\* the spring animation on a row's value reaches its toValue
SpringEnd(taskId) ==
  /\ taskId \in DOMAIN swipeAnimations
  /\ swipeAnimations[taskId].running
  /\ swipeAnimations' =
       [swipeAnimations EXCEPT ![taskId] = FinishAnimation(@)]
  /\ lastOp' = Op("springEnd", taskId, TRUE, 0, 0)
  /\ UNCHANGED notTasksVars
  /\ UNCHANGED <<tasks, newTask, showPrioritySelector, selectedPriority,
                 slideAnim, listeners, touching, now>>

----------------------------------------------------------------------------
(* Touch gestures of the web build (Platform.OS === 'web') *)

\* a closure pair registered by onTouchStart: the row's id, currentX, and
\* whether the Animated.Value it refers to has left the map since
Listener(id) == [id |-> id, currentX |-> StartX, orphan |-> FALSE]

\* handleTouchMove of one closure
MoveOne(anims, l, clientX) ==
  IF l.orphan THEN anims ELSE HandleSwipeOn(anims, l.id, clientX - StartX)

RECURSIVE MoveAll(_, _, _)
MoveAll(anims, ls, clientX) ==
  IF ls = <<>> THEN anims
  ELSE MoveAll(MoveOne(anims, Head(ls), clientX), Tail(ls), clientX)

\* the velocity handleTouchEnd passes to handleSwipeEnd
EndVelocity(actualVelocityX) == 0

\* handleTouchEnd of one closure
EndOne(anims, l, actualVelocityX) ==
  IF l.orphan THEN anims
  ELSE HandleSwipeEndOn(anims, l.id, l.currentX - StartX,
                        EndVelocity(actualVelocityX))

RECURSIVE EndAll(_, _, _)
EndAll(anims, ls, actualVelocityX) ==
  IF ls = <<>> THEN anims
  ELSE EndAll(EndOne(anims, Head(ls), actualVelocityX), Tail(ls),
              actualVelocityX)

onTouchStart(id) ==
  /\ ~touching
  /\ id \in TaskIds(tasks)
  /\ Len(listeners) < MaxListeners
  /\ touching' = TRUE
  /\ listeners' = Append(listeners, Listener(id))
  /\ lastOp' = Op("touchStart", id, TRUE, StartX, 0)
  /\ UNCHANGED notTasksVars
  /\ UNCHANGED <<tasks, newTask, showPrioritySelector, selectedPriority,
                 slideAnim, swipeAnimations, now>>

handleTouchMove(clientX) ==
  /\ touching
  /\ listeners' = [i \in DOMAIN listeners |->
                     [listeners[i] EXCEPT !.currentX = clientX]]
  /\ swipeAnimations' = MoveAll(swipeAnimations, listeners, clientX)
  /\ lastOp' = Op("touchMove", NoId, TRUE, clientX, 0)
  /\ UNCHANGED notTasksVars
  /\ UNCHANGED <<tasks, newTask, showPrioritySelector, selectedPriority,
                 slideAnim, touching, now>>

handleTouchEnd(actualVelocityX) ==
  /\ touching
  /\ touching' = FALSE
  /\ swipeAnimations' = EndAll(swipeAnimations, listeners, actualVelocityX)
  /\ listeners' = <<>>
  /\ lastOp' = Op("touchEnd", NoId,
                  \A i \in DOMAIN listeners : ~listeners[i].orphan,
                  0, actualVelocityX)
  /\ UNCHANGED notTasksVars
  /\ UNCHANGED <<tasks, newTask, showPrioritySelector, selectedPriority,
                 slideAnim, now>>

\* the gesture is abandoned: no touchend reaches document
TouchCancel ==
  /\ touching
  /\ touching' = FALSE
  /\ lastOp' = Op("touchCancel", NoId, TRUE, 0, 0)
  /\ UNCHANGED notTasksVars
  /\ UNCHANGED <<tasks, newTask, showPrioritySelector, selectedPriority,
                 slideAnim, swipeAnimations, listeners, now>>

NextWeb ==
  \/ \E id \in TaskIds(InitialTasks) : onTouchStart(id)
  \/ \E x \in ClientXs : handleTouchMove(x)
  \/ \E v \in Velocities : handleTouchEnd(v)
  \/ TouchCancel
  \/ \E id \in TaskIds(InitialTasks) : SpringEnd(id)
  \/ \E id \in ToggleIds : toggleTask(id)
  \/ \E id \in DeleteIds : deleteTask(id)

SpecWeb == Init /\ [][NextWeb]_vars

NextCalls ==
  \/ \E id \in SwipeIds, tx \in Translations : handleSwipe(id, tx)
  \/ \E id \in SwipeIds, tx \in Translations, vx \in CallVelocities :
       handleSwipeEnd(id, tx, vx)
  \/ \E id \in SwipeIds : closeSwipe(id)
  \/ \E id \in TaskIds(InitialTasks) : SpringEnd(id)
  \/ \E id \in ToggleIds : toggleTask(id)
  \/ \E id \in DeleteIds : deleteTask(id)

SpecCalls == Init /\ [][NextCalls]_vars

----------------------------------------------------------------------------
(* Journal: the sleep hours of src/app/(tabs)/journal.tsx *)

IsDigit(c) == \E d \in DOMAIN DigitChars : DigitChars[d] = c
DigitValue(c) == (CHOOSE d \in DOMAIN DigitChars : DigitChars[d] = c) - 1

\* the number of digits s starts with
RECURSIVE DigitsPrefixLen(_)
DigitsPrefixLen(s) ==
  IF s = <<>> \/ ~IsDigit(Head(s)) THEN 0 ELSE 1 + DigitsPrefixLen(Tail(s))

\* the value of the decimal numeral made of the digits of s
RECURSIVE DigitsValue(_)
DigitsValue(s) ==
  IF s = <<>> THEN 0
  ELSE DigitsValue(SubSeq(s, 1, Len(s) - 1)) * 10 + DigitValue(s[Len(s)])

\* parseFloat(value): leading white space, a sign, digits, a point, digits;
\* what follows is ignored; no digit at all is NaN.  The result is in tenths
\* (the fraction is read to its first digit).
ParseFloat(value) ==
  LET s == TrimStart(value)
      signed == s # <<>> /\ Head(s) \in {"-", "+"}
      body == IF signed THEN Tail(s) ELSE s
      k == DigitsPrefixLen(body)
      rest == SubSeq(body, k + 1, Len(body))
      frac == IF rest # <<>> /\ Head(rest) = "." THEN Tail(rest) ELSE <<>>
      f == DigitsPrefixLen(frac)
      magnitude == Hours(DigitsValue(SubSeq(body, 1, k)))
                     + (IF f > 0 THEN DigitValue(frac[1]) ELSE 0)
  IN  [nan |-> k = 0 /\ f = 0,
       value |-> IF signed /\ Head(s) = "-" THEN 0 - magnitude ELSE magnitude]

\* parseFloat(value) || 0
ParseHours(value) ==
  LET r == ParseFloat(value) IN IF r.nan THEN 0 ELSE r.value

\* Math.round(x): the nearest integer, a tie goes up.  x is in tenths, the
\* result is a whole number.
MathRound(x) == (x + 5) \div 10

\* Math.round(h * 2) / 2, in tenths
RoundToHalf(h) == MathRound(h * 2) * HalfHour

\* hours >= 0 && hours <= 24
InRange(hours) == hours >= 0 /\ hours <= MaxSleepHours

\* <TextInput onChangeText={handleSleepChange}>
handleSleepChange(value) ==
  /\ sleepCalls < MaxBatch
  /\ LET hours == ParseHours(value)
     IN  /\ sleepHours' = IF InRange(hours) THEN hours ELSE sleepHours
         /\ lastOp' = Op("handleSleepChange", value, InRange(hours), hours, 0)
  /\ sleepCalls' = sleepCalls + 1
  /\ UNCHANGED renderedSleepHours
  /\ UNCHANGED notJournalVars

\* the "+" button; the guard reads the sleepHours of the last render, the
\* updater the state as it is
incrementSleep ==
  /\ sleepCalls < MaxBatch
  /\ sleepHours' = IF renderedSleepHours < MaxSleepHours
                     THEN RoundToHalf(sleepHours + HalfHour)
                     ELSE sleepHours
  /\ lastOp' = Op("incrementSleep", NoId,
                  renderedSleepHours < MaxSleepHours, sleepHours, 0)
  /\ sleepCalls' = sleepCalls + 1
  /\ UNCHANGED renderedSleepHours
  /\ UNCHANGED notJournalVars

\* the "-" button
decrementSleep ==
  /\ sleepCalls < MaxBatch
  /\ sleepHours' = IF renderedSleepHours > 0
                     THEN RoundToHalf(sleepHours - HalfHour)
                     ELSE sleepHours
  /\ lastOp' = Op("decrementSleep", NoId,
                  renderedSleepHours > 0, sleepHours, 0)
  /\ sleepCalls' = sleepCalls + 1
  /\ UNCHANGED renderedSleepHours
  /\ UNCHANGED notJournalVars

\* React renders Journal again: the handlers now close over the new state
JournalRender ==
  /\ sleepCalls > 0
  /\ renderedSleepHours' = sleepHours
  /\ sleepCalls' = 0
  /\ lastOp' = Op("render", NoId, FALSE, sleepHours, 0)
  /\ UNCHANGED sleepHours
  /\ UNCHANGED notJournalVars

NextJournal ==
  \/ \E value \in TypedSleep : handleSleepChange(value)
  \/ incrementSleep
  \/ decrementSleep
  \/ JournalRender

SpecJournal == Init /\ [][NextJournal]_vars

----------------------------------------------------------------------------
(* Journal: the form and handleSubmit *)

\* what the form's controls are given; the moods are two of moods[].value
PressedMoods == {"happy", "sad"}
PickedDates == {Tonight, Tomorrow}
EditedFields == {"strength", "nutrition", "reflection"}
TypedTexts == {"", "x"}
TypedHours == { <<"2", "3", ".", "5">>, <<"2", "5">> }

\* selectedDate.toISOString().split('T')[0]
ISODate(date) == date.utc

\* the JournalEntry of handleSubmit; the handler reads the state of the
\* render it belongs to
Entry(date, mood, texts, sleep) ==
  [date |-> ISODate(date), mood |-> mood, strength |-> texts["strength"],
   learning |-> texts["learning"],
   relationships |-> texts["relationships"],
   spirituality |-> texts["spirituality"], career |-> texts["career"],
   sleep |-> sleep, nutrition |-> texts["nutrition"],
   reflection |-> texts["reflection"]]

Alert(title) == [kind |-> "Alert.alert", arg |-> title]

\* a resetForm that leaves the reflection text in place
ResetFormKeepReflection(texts) ==
  [EmptyFields EXCEPT !["reflection"] = texts["reflection"]]

\* resetForm, the seven text states
ResetForm(texts) == EmptyFields

\* onPress={() => setShowDatePicker(true)}
OpenDatePicker ==
  /\ showDatePicker' = TRUE
  /\ lastOp' = Op("openDatePicker", NoId, TRUE, 0, 0)
  /\ UNCHANGED <<selectedDate, selectedMood, fields, journalOut>>
  /\ UNCHANGED journalVars
  /\ UNCHANGED notFormVars

\* handleDateChange with a date
handleDateChange(date) ==
  /\ showDatePicker
  /\ showDatePicker' = FALSE
  /\ selectedDate' = date
  /\ lastOp' = Op("handleDateChange", NoId, TRUE, 0, 0)
  /\ UNCHANGED <<selectedMood, fields, journalOut>>
  /\ UNCHANGED journalVars
  /\ UNCHANGED notFormVars

\* handleDateChange without a date: the picker was dismissed
DismissDatePicker ==
  /\ showDatePicker
  /\ showDatePicker' = FALSE
  /\ lastOp' = Op("handleDateChange", NoId, FALSE, 0, 0)
  /\ UNCHANGED <<selectedDate, selectedMood, fields, journalOut>>
  /\ UNCHANGED journalVars
  /\ UNCHANGED notFormVars

\* onPress={() => setSelectedMood(mood.value)}
SelectMood(mood) ==
  /\ selectedMood' = mood
  /\ lastOp' = Op("setSelectedMood", NoId, TRUE, 0, 0)
  /\ UNCHANGED <<selectedDate, showDatePicker, fields, journalOut>>
  /\ UNCHANGED journalVars
  /\ UNCHANGED notFormVars

\* onChangeText={setStrength} and the six like it
ChangeField(name, text) ==
  /\ fields' = [fields EXCEPT ![name] = text]
  /\ lastOp' = Op("setField", NoId, TRUE, 0, 0)
  /\ UNCHANGED <<selectedDate, showDatePicker, selectedMood, journalOut>>
  /\ UNCHANGED journalVars
  /\ UNCHANGED notFormVars

\* the Save button
Journal_handleSubmit ==
  /\ IF selectedMood = ""
       THEN /\ journalOut' = <<Alert("Missing Information")>>
            /\ lastOp' = Op("handleSubmit", NoId, FALSE, 0, 0)
            /\ UNCHANGED <<selectedMood, fields>>
            /\ UNCHANGED journalVars
       ELSE /\ sleepCalls < MaxBatch
            /\ journalOut' =
                 <<[kind |-> "console.log",
                    arg |-> Entry(selectedDate, selectedMood, fields,
                                  renderedSleepHours)],
                   Alert("Success!")>>
            /\ selectedMood' = ""
            /\ fields' = ResetForm(fields)
            /\ sleepHours' = InitialSleepHours
            /\ sleepCalls' = sleepCalls + 1
            /\ lastOp' = Op("handleSubmit", NoId, TRUE, 0, 0)
            /\ UNCHANGED renderedSleepHours
  /\ UNCHANGED <<selectedDate, showDatePicker>>
  /\ UNCHANGED notFormVars

NextJournalForm ==
  \/ OpenDatePicker
  \/ \E date \in PickedDates : handleDateChange(date)
  \/ DismissDatePicker
  \/ \E mood \in PressedMoods : SelectMood(mood)
  \/ \E name \in EditedFields, text \in TypedTexts : ChangeField(name, text)
  \/ \E value \in TypedHours : handleSleepChange(value)
  \/ JournalRender
  \/ Journal_handleSubmit

SpecJournalForm == Init /\ [][NextJournalForm]_vars

----------------------------------------------------------------------------
(* Login page: src/app/loginpage.tsx *)

LoginFields == {"email", "password", "confirmPassword"}

\* what is typed into the three inputs
TypedLogin == {"", "a@b.c", "pw", "pw2"}

AlertOf(title, message) == [title |-> title, message |-> message]

\* a handleSubmit that compares the two passwords in both modes
SubmitAlertAlwaysCompare(mode, data) ==
  IF data.email = "" \/ data.password = ""
    THEN AlertOf("Error", "Please fill in all required fields")
    ELSE IF data.password # data.confirmPassword
      THEN AlertOf("Error", "Passwords do not match")
      ELSE AlertOf("Success", IF mode THEN "Login successful!"
                                      ELSE "Sign up successful!")

\* handleSubmit: the alert it raises
SubmitAlert(mode, data) ==
  IF data.email = "" \/ data.password = ""
    THEN AlertOf("Error", "Please fill in all required fields")
    ELSE IF ~mode /\ data.password # data.confirmPassword
      THEN AlertOf("Error", "Passwords do not match")
      ELSE AlertOf("Success", IF mode THEN "Login successful!"
                                      ELSE "Sign up successful!")

\* the Confirm Password input is rendered in sign-up mode only
handleInputChange(field, value) ==
  /\ field = "confirmPassword" => ~isLoginMode
  /\ formData' = [formData EXCEPT ![field] = value]
  /\ lastOp' = Op("handleInputChange", NoId, TRUE, 0, 0)
  /\ UNCHANGED <<isLoginMode, showFAQ, loginAlert>>
  /\ UNCHANGED notLoginVars

Login_handleSubmit ==
  /\ loginAlert' = SubmitAlert(isLoginMode, formData)
  /\ lastOp' = Op("Login.handleSubmit", NoId,
                  SubmitAlert(isLoginMode, formData).title = "Success", 0, 0)
  /\ UNCHANGED <<isLoginMode, formData, showFAQ>>
  /\ UNCHANGED notLoginVars

\* the Forgot Password link is rendered in login mode only
handleForgotPassword ==
  /\ isLoginMode
  /\ loginAlert' = IF formData.email = ""
                     THEN AlertOf("Error", "Please enter your email first")
                     ELSE AlertOf("Password Reset",
                                  "Reset link sent to your email")
  /\ lastOp' = Op("handleForgotPassword", NoId, formData.email # "", 0, 0)
  /\ UNCHANGED <<isLoginMode, formData, showFAQ>>
  /\ UNCHANGED notLoginVars

toggleMode ==
  /\ isLoginMode' = ~isLoginMode
  /\ formData' = EmptyFormData
  /\ lastOp' = Op("toggleMode", NoId, TRUE, 0, 0)
  /\ UNCHANGED <<showFAQ, loginAlert>>
  /\ UNCHANGED notLoginVars

\* onPress={() => setShowFAQ(!showFAQ)}
ToggleFAQ ==
  /\ showFAQ' = ~showFAQ
  /\ lastOp' = Op("setShowFAQ", NoId, TRUE, 0, 0)
  /\ UNCHANGED <<isLoginMode, formData, loginAlert>>
  /\ UNCHANGED notLoginVars

NextLogin ==
  \/ \E field \in LoginFields, value \in TypedLogin :
       handleInputChange(field, value)
  \/ Login_handleSubmit
  \/ handleForgotPassword
  \/ toggleMode
  \/ ToggleFAQ

SpecLogin == Init /\ [][NextLogin]_vars

----------------------------------------------------------------------------
(* Skills overview: src/components/home/Overview.tsx *)

\* skills[].name
skills == <<"Strength", "Learning", "Sleep", "Nutrition", "Career",
            "Relationship", "Spirituality">>

\* the pans that are ended, and the dots that are pressed (index of
\* skills.map, counted from 0)
PanTranslations == {-120, -51, -50, 0, 50, 51, 120}
NavDots == 0 .. (Len(skills) - 1)

\* an onEnd that steps without Math.min and Math.max
NextIndexUnclamped(index, translationX) ==
  IF translationX < -PanThreshold THEN index + 1
  ELSE IF translationX > PanThreshold THEN index - 1
  ELSE index

\* onEnd: nextIndex
NextIndex(index, translationX) ==
  IF translationX < -PanThreshold THEN Min(index + 1, Len(skills) - 1)
  ELSE IF translationX > PanThreshold THEN Max(index - 1, 0)
  ELSE index

\* panGesture.onUpdate
panUpdate(translationX) ==
  /\ translateX' = SetValue(translateX, translationX)
  /\ lastOp' = Op("panUpdate", NoId, TRUE, translationX, currentSkillIndex)
  /\ UNCHANGED currentSkillIndex
  /\ UNCHANGED notOverviewVars

\* panGesture.onEnd
panEnd(translationX) ==
  /\ currentSkillIndex' = NextIndex(currentSkillIndex, translationX)
  /\ translateX' = StartAnimation(translateX, 0)
  /\ lastOp' = Op("panEnd", NoId, TRUE, translationX, currentSkillIndex)
  /\ UNCHANGED notOverviewVars

\* the spring on translateX reaches 0
OverviewSpringEnd ==
  /\ translateX.running
  /\ translateX' = FinishAnimation(translateX)
  /\ lastOp' = Op("overviewSpringEnd", NoId, TRUE, 0, currentSkillIndex)
  /\ UNCHANGED currentSkillIndex
  /\ UNCHANGED notOverviewVars

\* navDot onPress={() => setCurrentSkillIndex(index)}
PressNavDot(index) ==
  /\ currentSkillIndex' = index
  /\ lastOp' = Op("navDot", NoId, TRUE, index, currentSkillIndex)
  /\ UNCHANGED translateX
  /\ UNCHANGED notOverviewVars

NextOverview ==
  \/ \E translationX \in PanTranslations : panUpdate(translationX)
  \/ \E translationX \in PanTranslations : panEnd(translationX)
  \/ OverviewSpringEnd
  \/ \E index \in NavDots : PressNavDot(index)

SpecOverview == Init /\ [][NextOverview]_vars

----------------------------------------------------------------------------
(* Auto-hiding headers: GlobalHeader of src/components/HeaderBar.tsx and
   HomeTabs of src/components/home/HomeTabs.tsx *)

\* the offsets the scroll events carry; a negative one is an overscroll
ScrollOffsets == {-20, 0, 30, 50, 51, 80, 81, 120}

tabs == {"Overview", "Tasks", "Calendar", "Stats"}

\* the scrollY listener of GlobalHeader: headerTranslateY after an event
GlobalHeaderOnScroll(anim, last, currentScrollY) ==
  LET diff == currentScrollY - last
  IN  IF diff > 0 /\ currentScrollY > headerHeight
        THEN StartAnimation(anim, -headerHeight)
        ELSE IF diff < 0 THEN StartAnimation(anim, 0)
        ELSE anim

\* a listener that hides the tab header on every scroll down
TabHeaderOnScrollAnywhere(anim, last, currentScrollY) ==
  LET diff == currentScrollY - last
  IN  IF diff > 0
        THEN StartAnimation(anim, -tabHeaderHeight)
        ELSE IF diff < 0 THEN StartAnimation(anim, 0)
        ELSE anim

\* the listener of handleScroll in HomeTabs: headerTranslateY after an event
TabHeaderOnScroll(anim, last, currentScrollY) ==
  LET diff == currentScrollY - last
  IN  IF diff > 0 /\ currentScrollY > TabHideOffset
        THEN StartAnimation(anim, -tabHeaderHeight)
        ELSE IF diff < 0 THEN StartAnimation(anim, 0)
        ELSE anim

\* GlobalHeader is given a scrollY: the effect adds its listener
AddScrollYListener ==
  /\ ~scrollYListener
  /\ scrollYListener' = TRUE
  /\ lastOp' = Op("addListener", NoId, TRUE, 0, 0)
  /\ UNCHANGED <<globalTranslateY, globalLastScrollY, activeTab,
                 tabTranslateY, tabLastScrollY>>
  /\ UNCHANGED notHeaderVars

\* scrollY changes and the listener of GlobalHeader is called
GlobalScroll(value) ==
  /\ scrollYListener
  /\ globalTranslateY' =
       GlobalHeaderOnScroll(globalTranslateY, globalLastScrollY, value)
  /\ globalLastScrollY' = value
  /\ lastOp' = Op("globalScroll", NoId, TRUE, value, globalLastScrollY)
  /\ UNCHANGED <<scrollYListener, activeTab, tabTranslateY, tabLastScrollY>>
  /\ UNCHANGED notHeaderVars

\* the timing animation of the global header reaches its toValue
GlobalHeaderAnimEnd ==
  /\ globalTranslateY.running
  /\ globalTranslateY' = FinishAnimation(globalTranslateY)
  /\ lastOp' = Op("globalHeaderAnimEnd", NoId, TRUE, 0, 0)
  /\ UNCHANGED <<scrollYListener, globalLastScrollY, activeTab,
                 tabTranslateY, tabLastScrollY>>
  /\ UNCHANGED notHeaderVars

\* onScroll of the ScrollView of HomeTabs
handleScroll(y) ==
  /\ tabTranslateY' = TabHeaderOnScroll(tabTranslateY, tabLastScrollY, y)
  /\ tabLastScrollY' = y
  /\ lastOp' = Op("handleScroll", NoId, TRUE, y, tabLastScrollY)
  /\ UNCHANGED <<scrollYListener, globalTranslateY, globalLastScrollY,
                 activeTab>>
  /\ UNCHANGED notHeaderVars

\* the timing animation of the tab header reaches its toValue
TabHeaderAnimEnd ==
  /\ tabTranslateY.running
  /\ tabTranslateY' = FinishAnimation(tabTranslateY)
  /\ lastOp' = Op("tabHeaderAnimEnd", NoId, TRUE, 0, 0)
  /\ UNCHANGED <<scrollYListener, globalTranslateY, globalLastScrollY,
                 activeTab, tabLastScrollY>>
  /\ UNCHANGED notHeaderVars

\* onPress={() => setActiveTab(tab)}
PressTab(tab) ==
  /\ activeTab' = tab
  /\ lastOp' = Op("setActiveTab", NoId, TRUE, 0, 0)
  /\ UNCHANGED <<scrollYListener, globalTranslateY, globalLastScrollY,
                 tabTranslateY, tabLastScrollY>>
  /\ UNCHANGED notHeaderVars

NextHeaders ==
  \/ AddScrollYListener
  \/ \E value \in ScrollOffsets : GlobalScroll(value)
  \/ GlobalHeaderAnimEnd
  \/ \E y \in ScrollOffsets : handleScroll(y)
  \/ TabHeaderAnimEnd
  \/ \E tab \in tabs : PressTab(tab)

SpecHeaders == Init /\ [][NextHeaders]_vars

----------------------------------------------------------------------------
(* Settings page: src/unnamed/part_000 *)

\* an entry of SETTINGS_CONFIG; an attribute the entry does not have is
\* undefined, which the handlers read as false
Item(id, route, requiresAuth, apiEndpoint, external, confirmationRequired) ==
  [id |-> id, route |-> route, requiresAuth |-> requiresAuth,
   apiEndpoint |-> apiEndpoint, external |-> external,
   confirmationRequired |-> confirmationRequired]

NoRoute == "undefined"

SETTINGS_CONFIG ==
  { Item("edit-profile", "/profile/edit", TRUE, TRUE, FALSE, FALSE),
    Item("change-email", "/profile/email", TRUE, TRUE, FALSE, FALSE),
    Item("change-password", "/profile/password", TRUE, TRUE, FALSE, FALSE),
    Item("linked-accounts", "/profile/accounts", TRUE, TRUE, FALSE, FALSE),
    Item("ai-preferences", "/settings/ai", TRUE, TRUE, FALSE, FALSE),
    Item("language-region", "/settings/language", FALSE, TRUE, FALSE, FALSE),
    Item("notifications", "/settings/notifications", TRUE, TRUE, FALSE,
         FALSE),
    Item("habit-settings", "/settings/habits", TRUE, TRUE, FALSE, FALSE),
    Item("journaling-settings", "/settings/journaling", TRUE, TRUE, FALSE,
         FALSE),
    Item("data-sync", "/settings/sync", TRUE, TRUE, FALSE, FALSE),
    Item("permissions", "/settings/permissions", TRUE, TRUE, FALSE, FALSE),
    Item("privacy-controls", "/settings/privacy", TRUE, TRUE, FALSE, FALSE),
    Item("app-lock", "/settings/security", TRUE, TRUE, FALSE, FALSE),
    Item("health-apps", "/settings/integrations/health", TRUE, TRUE, FALSE,
         FALSE),
    Item("api-export", "/settings/export", TRUE, TRUE, FALSE, FALSE),
    Item("theme", "/settings/theme", FALSE, TRUE, FALSE, FALSE),
    Item("accessibility", "/settings/accessibility", FALSE, TRUE, FALSE,
         FALSE),
    Item("help", "/help", FALSE, FALSE, TRUE, FALSE),
    Item("contact", "/support", FALSE, FALSE, TRUE, FALSE),
    Item("legal", "/legal", FALSE, FALSE, TRUE, FALSE),
    Item("version", "/settings/about", FALSE, FALSE, FALSE, FALSE),
    Item("logout", NoRoute, TRUE, TRUE, FALSE, TRUE),
    Item("delete-account", NoRoute, TRUE, TRUE, FALSE, TRUE) }

\* the mock user of fetchUserData
MockUser == "12345"

\* what a handler does, one event per statement that writes state or
\* reaches outside the component
Event(kind, arg) == [kind |-> kind, arg |-> arg]

\* the state after one event
ApplyEvent(st, e) ==
  CASE e.kind = "setLoading" -> [st EXCEPT !.loading = e.arg]
    [] e.kind = "setUser" -> [st EXCEPT !.user = e.arg]
    [] e.kind = "setIsAuthenticated" -> [st EXCEPT !.isAuthenticated = e.arg]
    [] OTHER -> st

RECURSIVE ApplyEvents(_, _)
ApplyEvents(st, es) ==
  IF es = <<>> THEN st ELSE ApplyEvents(ApplyEvent(st, Head(es)), Tail(es))

\* a handler call: its events take effect in order and are logged
SettingsCall(es) ==
  LET st == ApplyEvents([user |-> user, loading |-> loading,
                         isAuthenticated |-> isAuthenticated], es)
  IN  /\ user' = st.user
      /\ loading' = st.loading
      /\ isAuthenticated' = st.isAuthenticated
      /\ settingsLog' = Append(settingsLog, es)

\* fetchUserData: try { setLoading(true); setUser(mock) } finally
FetchUserDataEvents ==
  <<Event("setLoading", TRUE), Event("setUser", MockUser),
    Event("setLoading", FALSE)>>

\* a handleNavigation without the redirect to login
HandleNavigationEventsNoAuth(item, auth, opens) ==
  IF item.external
    THEN <<Event("window.open", item.route)>>
         \o (IF opens THEN <<>> ELSE <<Event("throw", "window.open")>>)
    ELSE <<Event("navigate", item.route)>>

\* handleNavigation; opens is FALSE when window.open throws an exception
HandleNavigationEvents(item, auth, opens) ==
  IF item.external
    THEN <<Event("window.open", item.route)>>
         \o (IF opens THEN <<>> ELSE <<Event("throw", "window.open")>>)
    ELSE IF item.requiresAuth /\ ~auth
           THEN <<Event("login", item.route)>>
           ELSE <<Event("navigate", item.route)>>

Thrown(es) == \E i \in DOMAIN es : es[i].kind = "throw"

\* the answers of window.confirm: OK, Cancel, or an exception
Confirms == {"accept", "decline", "throw"}

\* a try block that logs the user out whatever the prompt's answer is
ApiCallBodyUnconfirmed(item, auth, confirmed, opens) ==
  IF item.confirmationRequired /\ confirmed = "throw"
    THEN <<Event("throw", "window.confirm")>>
    ELSE (IF item.confirmationRequired
            THEN <<Event("window.confirm", confirmed = "accept")>>
            ELSE <<>>)
         \o (IF item.id \in {"logout", "delete-account"}
               THEN <<Event("console.log", item.id),
                      Event("setIsAuthenticated", FALSE)>>
               ELSE HandleNavigationEvents(item, auth, opens))

\* the try block of handleApiCall after setLoading(true), up to its return
\* or to the statement that throws
ApiCallBody(item, auth, confirmed, opens) ==
  IF item.confirmationRequired /\ confirmed = "throw"
    THEN <<Event("throw", "window.confirm")>>
    ELSE IF item.confirmationRequired /\ confirmed = "decline"
      THEN <<Event("window.confirm", FALSE)>>
      ELSE (IF item.confirmationRequired
              THEN <<Event("window.confirm", TRUE)>> ELSE <<>>)
           \o (IF item.id \in {"logout", "delete-account"}
                 THEN <<Event("console.log", item.id),
                        Event("setIsAuthenticated", FALSE)>>
                 ELSE HandleNavigationEvents(item, auth, opens))

\* a handleApiCall whose return on a declined confirmation leaves the
\* function without the finally block
HandleApiCallEventsNoFinally(item, auth, confirmed, opens) ==
  IF ~item.apiEndpoint THEN <<>>
  ELSE LET body == ApiCallBody(item, auth, confirmed, opens)
       IN  <<Event("setLoading", TRUE)>> \o body
             \o (IF Thrown(body) THEN <<Event("console.error", item.id)>>
                                 ELSE <<>>)
             \o (IF item.confirmationRequired /\ confirmed = "decline"
                   THEN <<>> ELSE <<Event("setLoading", FALSE)>>)

\* handleApiCall: try { setLoading(true); ... } catch { console.error }
\* finally { setLoading(false) }
HandleApiCallEvents(item, auth, confirmed, opens) ==
  IF ~item.apiEndpoint THEN <<>>
  ELSE LET body == ApiCallBody(item, auth, confirmed, opens)
       IN  <<Event("setLoading", TRUE)>> \o body
             \o (IF Thrown(body) THEN <<Event("console.error", item.id)>>
                                 ELSE <<>>)
             \o <<Event("setLoading", FALSE)>>

\* the page shows its items once the first fetch is over
PageShown == ~(loading /\ user = NoUser)

\* <button disabled={loading || (item.requiresAuth && !isAuthenticated)}>
Disabled(item) == loading \/ (item.requiresAuth /\ ~isAuthenticated)

\* handleItemPress
HandleItemPressEvents(item, auth, confirmed, opens) ==
  IF item.apiEndpoint /\ item.id \in {"logout", "delete-account"}
    THEN HandleApiCallEvents(item, auth, confirmed, opens)
    ELSE HandleNavigationEvents(item, auth, opens)

\* useEffect(() => { fetchUserData(); fetchAppVersion(); }, [])
fetchUserData ==
  /\ settingsLog = <<>>
  /\ SettingsCall(FetchUserDataEvents)
  /\ lastOp' = Op("fetchUserData", NoId, TRUE, 0, 0)
  /\ UNCHANGED notSettingsVars

\* a click on the button of an item
handleItemPress(item, confirmed, opens) ==
  /\ settingsLog # <<>>
  /\ Len(settingsLog) <= MaxCalls
  /\ PageShown
  /\ ~Disabled(item)
  /\ SettingsCall(HandleItemPressEvents(item, isAuthenticated, confirmed,
                                        opens))
  /\ lastOp' = Op("handleItemPress", item.id, confirmed = "accept", 0, 0)
  /\ UNCHANGED notSettingsVars

\* the handlers called on their own
handleApiCall(item, confirmed, opens) ==
  /\ settingsLog # <<>>
  /\ Len(settingsLog) <= MaxCalls
  /\ SettingsCall(HandleApiCallEvents(item, isAuthenticated, confirmed,
                                      opens))
  /\ lastOp' = Op("handleApiCall", item.id, confirmed = "accept", 0, 0)
  /\ UNCHANGED notSettingsVars

handleNavigation(item, opens) ==
  /\ settingsLog # <<>>
  /\ Len(settingsLog) <= MaxCalls
  /\ SettingsCall(HandleNavigationEvents(item, isAuthenticated, opens))
  /\ lastOp' = Op("handleNavigation", item.id, opens, 0, 0)
  /\ UNCHANGED notSettingsVars

NextSettings ==
  \/ fetchUserData
  \/ \E item \in SETTINGS_CONFIG, confirmed \in Confirms, opens \in BOOLEAN :
       handleItemPress(item, confirmed, opens)

SpecSettings == Init /\ [][NextSettings]_vars

NextSettingsCalls ==
  \/ fetchUserData
  \/ \E item \in SETTINGS_CONFIG, confirmed \in Confirms, opens \in BOOLEAN :
       handleApiCall(item, confirmed, opens)
  \/ \E item \in SETTINGS_CONFIG, opens \in BOOLEAN :
       handleNavigation(item, opens)

SpecSettingsCalls == Init /\ [][NextSettingsCalls]_vars

----------------------------------------------------------------------------
(* Properties *)

AllWhite(s) == \A i \in DOMAIN s : s[i] \in WhiteSpace

Last(ts) == ts[Len(ts)]

\* C1: in every reachable state all tasks of the list have pairwise
\* distinct ids.
C1_DistinctIds ==
  \A i, j \in DOMAIN tasks : i # j => tasks[i].id # tasks[j].id

\* C2: addTask with an input that is empty or whitespace-only changes
\* nothing: the task list, the input text, the selected priority, the
\* selector and the swipe state stay as they were.
C2_BlankAddIsNoOp ==
  [][ (lastOp'.op = "addTask" /\ AllWhite(newTask))
        => UNCHANGED <<tasks, newTask, selectedPriority, swipeAnimations,
                       showPrioritySelector, slideAnim, listeners>> ]_vars

C2_Witness ==
  /\ lastOp.op = "addTask"
  /\ ~lastOp.hit
  /\ newTask = <<"\t", " ">>
  /\ selectedPriority = 4
  /\ Len(tasks) = 3

\* C3: addTask with an input that is not blank makes the list one longer;
\* the new task is last, has the input as title, completed = FALSE and the
\* selected priority; the tasks already there keep value and position.
C3_AddAppends ==
  [][ (lastOp'.op = "addTask" /\ ~AllWhite(newTask))
        => /\ Len(tasks') = Len(tasks) + 1
           /\ SubSeq(tasks', 1, Len(tasks)) = tasks
           /\ Last(tasks').title = newTask
           /\ Last(tasks').completed = FALSE
           /\ Last(tasks').priority = selectedPriority
           /\ selectedPriority \in Priorities ]_vars

C3_Witness ==
  /\ lastOp.op = "addTask"
  /\ lastOp.hit
  /\ Len(tasks) = 4
  /\ \A i \in 1..3 : tasks[i].id = InitialTasks[i].id
  /\ tasks[4].title = Read
  /\ tasks[4].completed = FALSE
  /\ tasks[4].priority = 4

\* C4: deleteTask(id) with an id that is in the list removes exactly one
\* task: the list gets one shorter, no task with that id is left, and the
\* other tasks stay, in their order.
C4_DeleteRemovesOne ==
  [][ (lastOp'.op = "deleteTask" /\ lastOp'.id \in TaskIds(tasks))
        => /\ Len(tasks') = Len(tasks) - 1
           /\ lastOp'.id \notin TaskIds(tasks')
           /\ \E k \in DOMAIN tasks :
                /\ tasks[k].id = lastOp'.id
                /\ tasks' = SubSeq(tasks, 1, k - 1)
                              \o SubSeq(tasks, k + 1, Len(tasks)) ]_vars

\* C5: toggleTask(id) with an id that is in the list flips completed on one
\* task, the one with that id, and changes nothing else: every other task,
\* the length and the order stay, and so do the id, title and priority of
\* the toggled task.
C5_ToggleFlipsOne ==
  [][ (lastOp'.op = "toggleTask" /\ lastOp'.id \in TaskIds(tasks))
        => /\ Len(tasks') = Len(tasks)
           /\ \E k \in DOMAIN tasks :
                /\ tasks[k].id = lastOp'.id
                /\ tasks'[k] = [tasks[k] EXCEPT !.completed = ~tasks[k].completed]
                /\ \A j \in DOMAIN tasks : j # k => tasks'[j] = tasks[j] ]_vars

\* C6: toggleTask(id) called twice in succession gives back the list it
\* started from, for every reachable list and every id.
C6_ToggleTwice ==
  \A id \in ToggleIds \cup TaskIds(tasks) :
    ToggleIn(ToggleIn(tasks, id), id) = tasks

C6_Witness ==
  /\ lastOp.op = "toggleTask"
  /\ lastOp.x = 2
  /\ lastOp.id = <<"2">>
  /\ lastOp.hit
  /\ tasks = InitialTasks

\* C7: toggleTask(id) and deleteTask(id) with an id that matches no task
\* change nothing: the task list and all other state stay as they were.
C7_UnknownIdIsNoOp ==
  [][ (lastOp'.op \in {"toggleTask", "deleteTask"}
         /\ lastOp'.id \notin TaskIds(tasks))
        => UNCHANGED <<tasks, newTask, selectedPriority, swipeAnimations,
                       showPrioritySelector, slideAnim, listeners>> ]_vars

C7_Witness ==
  /\ lastOp.op = "deleteTask"
  /\ ~lastOp.hit
  /\ lastOp.id = <<"1">>
  /\ Len(tasks) = 2

\* C8: the offset handleSwipe stores for a row lies in [-80, 0]: 0 for a
\* rightward translation, -80 for one below -80, the translation itself
\* when it is in the range.
C8_SwipeClamped ==
  /\ \A id \in DOMAIN swipeAnimations :
       swipeAnimations[id].value \in (-80)..0
  /\ (lastOp.op = "handleSwipe" /\ lastOp.hit)
       => LET stored == swipeAnimations[lastOp.id].value
          IN  /\ lastOp.x > 0 => stored = 0
              /\ lastOp.x < -80 => stored = -80
              /\ lastOp.x \in (-80)..0 => stored = lastOp.x

C8_Witness ==
  /\ lastOp.op = "handleSwipe"
  /\ lastOp.hit
  /\ lastOp.x = -1000
  /\ swipeAnimations[lastOp.id].value = -80

\* C9: handleSwipeEnd sets the row's resting target to -80 if and only if
\* translationX < -40 or velocityX < -500, and to 0 otherwise.
C9_SwipeEndTarget ==
  (lastOp.op = "handleSwipeEnd" /\ lastOp.hit)
    => /\ swipeAnimations[lastOp.id].running
       /\ swipeAnimations[lastOp.id].toValue =
            IF lastOp.x < -40 \/ lastOp.v < -500 THEN -80 ELSE 0

C9_Witness ==
  /\ lastOp.op = "handleSwipeEnd"
  /\ lastOp.hit
  /\ lastOp.x = -40
  /\ lastOp.v = -500
  /\ swipeAnimations[lastOp.id].toValue = 0

\* C10: a leftward drag on a row that ends with a leftward speed above 500
\* leaves the row revealed (resting target -80) however short it was, as
\* does one that ends more than 40 to the left at any speed.
C10_FlickReveals ==
  [][ lastOp'.op = "touchEnd"
        => \A i \in DOMAIN listeners :
             LET l == listeners[i]
             IN  ( /\ ~l.orphan
                   /\ \/ l.currentX - StartX < -40
                      \/ (l.currentX < StartX /\ lastOp'.v < -500) )
                   => swipeAnimations'[l.id].toValue = -80 ]_vars

\* C11: a drag that has started on a row resolves to a resting state, also
\* when it is abandoned: once no finger is down and no animation runs on a
\* row, the row's offset is 0 or -80, never an intermediate value.
C11_GestureResolves ==
  ~touching
    => \A id \in DOMAIN swipeAnimations :
         ~swipeAnimations[id].running
           => swipeAnimations[id].value \in {0, -80}

\* C12: with no drag in progress every row's target is 0 (Closed) or -80
\* (Revealed); the target of a row changes only at the end of a drag, to
\* -80 exactly when the drag-end meets the threshold policy (more than 40 to
\* the left, or a leftward speed above 500) and to 0 when it fails it.
C12_ClosedOrRevealed ==
  [][ /\ ~touching'
        => \A id \in DOMAIN swipeAnimations' :
             swipeAnimations'[id].toValue \in {0, -80}
      /\ (~touching /\ ~touching')
        => \A id \in (DOMAIN swipeAnimations) \cap (DOMAIN swipeAnimations') :
             swipeAnimations'[id].toValue = swipeAnimations[id].toValue
      /\ lastOp'.op = "touchEnd"
        => \A i \in DOMAIN listeners :
             LET l == listeners[i]
             IN  ~l.orphan
                   => ( swipeAnimations'[l.id].toValue = -80
                          <=> ( \/ l.currentX - StartX < -40
                                \/ ( /\ l.currentX < StartX
                                     /\ lastOp'.v < -500 ) ) ) ]_vars

C14_OpenNotOverridden ==
  [][ /\ (lastOp'.op = "handleAddClick" /\ ~AllWhite(newTask))
           => showPrioritySelector'
      /\ slideAnim'.toValue = 1 => showPrioritySelector' ]_vars

\* C15: a successful addTask leaves the input empty and the selected
\* priority at 3, whatever priority the new task got; the selected priority
\* changes in no other handler than addTask and handlePrioritySelect, so an
\* addTask without a new selection creates a task of priority 3.
C15_AddResetsInput ==
  [][ /\ (lastOp'.op = "addTask" /\ ~AllWhite(newTask))
           => /\ newTask' = <<>>
              /\ selectedPriority' = 3
              /\ Last(tasks').priority = selectedPriority
      /\ lastOp'.op \notin {"addTask", "handlePrioritySelect"}
           => selectedPriority' = selectedPriority ]_vars

C15_Witness ==
  /\ lastOp.op = "addTask"
  /\ lastOp.hit
  /\ newTask = <<>>
  /\ selectedPriority = 3
  /\ Len(tasks) >= 2
  /\ tasks[Len(tasks) - 1].id \notin TaskIds(InitialTasks)
  /\ tasks[Len(tasks) - 1].priority = 4
  /\ Last(tasks).priority = 3

\* the place of a task in the order of creation: the initial tasks in their
\* initial order, then the added tasks by the clock value of their creation
CreationRanks ==
  [id \in TaskIds(InitialTasks)
           \cup { DateNowToString(Now0 + n) : n \in 0..MaxTicks } |->
     IF id \in TaskIds(InitialTasks)
       THEN CHOOSE i \in DOMAIN InitialTasks : InitialTasks[i].id = id
       ELSE Len(InitialTasks) + 1
              + CHOOSE n \in 0..MaxTicks : DateNowToString(Now0 + n) = id]

CreationRank(id) == CreationRanks[id]

Identity(t) == [id |-> t.id, title |-> t.title, priority |-> t.priority]

RECURSIVE IsSubSeq(_, _)
IsSubSeq(a, b) ==
  IF a = <<>> THEN TRUE
  ELSE IF b = <<>> THEN FALSE
  ELSE IF Identity(Head(a)) = Identity(Head(b))
         THEN IsSubSeq(Tail(a), Tail(b))
         ELSE IsSubSeq(a, Tail(b))

\* C18: the list keeps insertion order: the tasks appear in the order of
\* their creation, and every step leaves the surviving tasks in the order
\* they had, a new task coming last.
C18_InsertionOrder ==
  [][ /\ \A i \in 1..(Len(tasks') - 1) :
           CreationRank(tasks'[i].id) <= CreationRank(tasks'[i + 1].id)
      /\ \/ IsSubSeq(tasks', tasks)
         \/ /\ lastOp'.op = "addTask"
            /\ tasks' # <<>>
            /\ IsSubSeq(SubSeq(tasks', 1, Len(tasks') - 1), tasks) ]_vars

C18_Witness ==
  /\ lastOp.op = "toggleTask"
  /\ lastOp.hit
  /\ Len(tasks) = 3
  /\ tasks[1].id = <<"2">>
  /\ ~tasks[1].completed
  /\ tasks[2].id = <<"3">>
  /\ tasks[3].id = DateNowToString(Now0)

CountWhere(ts, flag) ==
  Cardinality({ i \in DOMAIN ts : ts[i].completed = flag })

\* C19: the rendered counts satisfy completed + pending = total = length of
\* the list, and a toggleTask of a task in the list moves one unit between
\* completed and pending, total unchanged.
C19_Counts ==
  [][ /\ CompletedCount(tasks') = CountWhere(tasks', TRUE)
      /\ PendingCount(tasks') = CountWhere(tasks', FALSE)
      /\ CompletedCount(tasks') + PendingCount(tasks') = TotalCount(tasks')
      /\ TotalCount(tasks') = Len(tasks')
      /\ (lastOp'.op = "toggleTask" /\ lastOp'.id \in TaskIds(tasks))
           => /\ TotalCount(tasks') = TotalCount(tasks)
              /\ \/ /\ CompletedCount(tasks') = CompletedCount(tasks) + 1
                    /\ PendingCount(tasks') = PendingCount(tasks) - 1
                 \/ /\ CompletedCount(tasks') = CompletedCount(tasks) - 1
                    /\ PendingCount(tasks') = PendingCount(tasks) + 1 ]_vars

\* C16: swipe state and completion state are orthogonal: handleSwipe,
\* handleSwipeEnd and closeSwipe leave the task list as it is; toggleTask
\* leaves every row's swipe state as it is, and what it does to the list
\* depends on the list and the id only, not on the row being closed or
\* revealed.
C16_SwipeToggleOrthogonal ==
  [][ /\ lastOp'.op \in {"handleSwipe", "handleSwipeEnd", "closeSwipe"}
           => tasks' = tasks
      /\ lastOp'.op = "toggleTask"
           => /\ swipeAnimations' = swipeAnimations
              /\ Len(tasks') = Len(tasks)
              /\ \A i \in DOMAIN tasks :
                   tasks'[i] =
                     IF tasks[i].id = lastOp'.id
                       THEN [tasks[i] EXCEPT !.completed = ~tasks[i].completed]
                       ELSE tasks[i] ]_vars

C16_Witness ==
  /\ lastOp.op = "toggleTask"
  /\ lastOp.hit
  /\ lastOp.id = <<"2">>
  /\ swipeAnimations[<<"2">>].value = -80
  /\ ~swipeAnimations[<<"2">>].running
  /\ \E k \in DOMAIN tasks : tasks[k].id = <<"2">> /\ ~tasks[k].completed

\* C17: closeSwipe(id) sets the resting target of the row of id to 0 from
\* any prior offset (closed, revealed, mid-drag) and leaves the swipe state
\* of every other row and the task list as they are.
C17_CloseSwipe ==
  [][ (lastOp'.op = "closeSwipe" /\ lastOp'.id \in DOMAIN swipeAnimations)
        => /\ swipeAnimations'[lastOp'.id].toValue = 0
           /\ swipeAnimations'[lastOp'.id].running
           /\ DOMAIN swipeAnimations' = DOMAIN swipeAnimations
           /\ \A id \in (DOMAIN swipeAnimations) \ {lastOp'.id} :
                swipeAnimations'[id] = swipeAnimations[id]
           /\ tasks' = tasks ]_vars

C17_Witness ==
  /\ lastOp.op = "closeSwipe"
  /\ lastOp.hit
  /\ swipeAnimations[lastOp.id].value = -80
  /\ swipeAnimations[lastOp.id].toValue = 0
  /\ swipeAnimations[lastOp.id].running
  /\ \E id \in (DOMAIN swipeAnimations) \ {lastOp.id} :
       swipeAnimations[id].value = -50

----------------------------------------------------------------------------
\* C20: sleepHours stays between 0 and 24 through any sequence of increments,
\* decrements and typed values (fractional ones off the half-hour grid and
\* several presses between two renders included), and a typed value outside
\* that range is rejected and leaves sleepHours as it was.
C20_SleepInRange ==
  [][ /\ InRange(sleepHours')
      /\ (lastOp'.op = "handleSleepChange" /\ ~InRange(lastOp'.x))
           => sleepHours' = sleepHours ]_vars

----------------------------------------------------------------------------
\* C21: closePrioritySelector leaves the task list, the input text and the
\* selected priority as they were, opening the selector and the end of the
\* animation leave the selected priority as it was (so a priority chosen
\* before Cancel is still selected when the selector is opened again), and
\* after a Cancel the selector is eventually hidden.
C21_CancelKeepsChoice ==
  /\ [][ /\ lastOp'.op = "closePrioritySelector"
           => UNCHANGED <<tasks, newTask, selectedPriority>>
         /\ lastOp'.op \in {"handleAddClick", "slideAnimEnd"}
           => UNCHANGED selectedPriority ]_vars
  /\ (lastOp.op = "closePrioritySelector") ~> ~showPrioritySelector

\* Cancel has just been pressed with a priority other than the default
\* chosen and a title typed
C21_Witness ==
  /\ lastOp.op = "closePrioritySelector"
  /\ selectedPriority = 4
  /\ ~IsBlank(newTask)
  /\ showPrioritySelector

----------------------------------------------------------------------------
(* Settings page *)

\* what the last handler call did
LastCall(log) == log[Len(log)]

HasEvent(es, e) == \E i \in DOMAIN es : es[i] = e

HasKind(es, kind) == \E i \in DOMAIN es : es[i].kind = kind

ItemOf(id) == CHOOSE item \in SETTINGS_CONFIG : item.id = id

\* C22: isAuthenticated only changes from true to false, only in a
\* handleApiCall (the call that begins with setLoading(true)) for logout or
\* delete-account after the prompt was accepted; a press whose prompt is not
\* accepted leaves it as it was, and once false it stays false.
C22_AuthOnlyDrops ==
  [][ /\ isAuthenticated' # isAuthenticated
           => /\ isAuthenticated /\ ~isAuthenticated'
              /\ lastOp'.op = "handleItemPress"
              /\ lastOp'.id \in {"logout", "delete-account"}
              /\ LastCall(settingsLog')[1] = Event("setLoading", TRUE)
              /\ HasEvent(LastCall(settingsLog'),
                          Event("window.confirm", TRUE))
      /\ (lastOp'.op = "handleItemPress" /\ ~lastOp'.hit)
           => isAuthenticated' = isAuthenticated
      /\ ~isAuthenticated => ~isAuthenticated' ]_vars

\* the account has been deleted after the prompt was accepted
C22_Witness ==
  /\ lastOp.op = "handleItemPress"
  /\ lastOp.id = "delete-account"
  /\ lastOp.hit
  /\ ~isAuthenticated

\* C23: every handler call that does setLoading(true) does setLoading(false)
\* later in the same call, whatever the path (prompt declined, logout,
\* delete-account, plain navigation, exception), so loading is false
\* whenever fetchUserData or handleApiCall has finished.
C23_LoadingReset ==
  /\ settingsLog # <<>> => ~loading
  /\ \A c \in DOMAIN settingsLog :
       \A i \in DOMAIN settingsLog[c] :
         settingsLog[c][i] = Event("setLoading", TRUE)
           => \E j \in DOMAIN settingsLog[c] :
                j > i /\ settingsLog[c][j] = Event("setLoading", FALSE)

\* every path of handleApiCall has been taken in some state; this one is
\* a declined prompt
C23_Witness ==
  /\ lastOp.op = "handleApiCall"
  /\ lastOp.id = "logout"
  /\ LastCall(settingsLog) =
       <<Event("setLoading", TRUE), Event("window.confirm", FALSE),
         Event("setLoading", FALSE)>>
  /\ isAuthenticated
  /\ ~loading

\* C24: no handler call navigates to the route of an item that requires
\* authentication and is not external while isAuthenticated is false,
\* handleNavigation redirects to login instead; handleNavigation calls
\* window.open for an external item whatever isAuthenticated is.
C24_NavigationGuard ==
  [][ Len(settingsLog') = Len(settingsLog) + 1
        /\ lastOp'.op \in {"handleNavigation", "handleApiCall"}
      => LET item == ItemOf(lastOp'.id)
             es == LastCall(settingsLog')
         IN  /\ (~item.external /\ item.requiresAuth /\ ~isAuthenticated)
                  => /\ ~HasKind(es, "navigate")
                     /\ lastOp'.op = "handleNavigation"
                          => es = <<Event("login", item.route)>>
             /\ (item.external /\ lastOp'.op = "handleNavigation")
                  => es[1] = Event("window.open", item.route) ]_vars

\* handleNavigation has redirected to login for an item that requires
\* authentication, after a logout
C24_Witness ==
  /\ lastOp.op = "handleNavigation"
  /\ lastOp.id = "edit-profile"
  /\ ~isAuthenticated
  /\ LastCall(settingsLog) = <<Event("login", "/profile/edit")>>

----------------------------------------------------------------------------
\* C25: handleSubmit with no mood selected logs no entry and leaves the
\* date, the text fields and sleepHours as they were; with a mood selected
\* it logs an entry made of the date, the mood, the seven texts and the
\* sleep hours of the form it was pressed on, then sets the mood and the
\* seven texts to empty and sleepHours to 8, and keeps the selected date.
C25_SubmitAndReset ==
  [][ lastOp'.op = "handleSubmit"
      => IF selectedMood = ""
           THEN /\ \A i \in DOMAIN journalOut' :
                     journalOut'[i].kind # "console.log"
                /\ UNCHANGED <<selectedDate, selectedMood, fields,
                               sleepHours>>
           ELSE /\ journalOut'[1].kind = "console.log"
                /\ LET entry == journalOut'[1].arg
                   IN  /\ entry.date = ISODate(selectedDate)
                       /\ entry.mood = selectedMood
                       /\ \A name \in FieldNames : entry[name] = fields[name]
                       /\ entry.sleep = renderedSleepHours
                       /\ sleepCalls = 0 => entry.sleep = sleepHours
                /\ selectedMood' = ""
                /\ \A name \in FieldNames : fields'[name] = ""
                /\ sleepHours' = InitialSleepHours
                /\ selectedDate' = selectedDate ]_vars

\* an entry with a text and 23.5 hours of sleep has been saved for a picked
\* date, and the form is reset around that date
C25_Witness ==
  /\ lastOp.op = "handleSubmit"
  /\ lastOp.hit
  /\ journalOut[1].arg.reflection = "x"
  /\ journalOut[1].arg.sleep = Hours(23) + HalfHour
  /\ selectedDate = Tonight
  /\ sleepHours = InitialSleepHours
  /\ fields = EmptyFields

----------------------------------------------------------------------------
\* C26: the login page's handleSubmit alerts Success if and only if email
\* and password are both non-empty and, in sign-up mode, password equals
\* confirmPassword; otherwise it alerts Error; it changes neither the form
\* data nor the mode; in login mode the outcome does not depend on
\* confirmPassword.
C26_LoginSubmit ==
  [][ lastOp'.op = "Login.handleSubmit"
      => LET valid == /\ formData.email # ""
                      /\ formData.password # ""
                      /\ ~isLoginMode
                           => formData.password = formData.confirmPassword
         IN  /\ valid => loginAlert'.title = "Success"
             /\ ~valid => loginAlert'.title = "Error"
             /\ UNCHANGED <<formData, isLoginMode>> ]_vars

\* a login has succeeded with a confirmPassword that differs from the
\* password
C26_Witness ==
  /\ lastOp.op = "Login.handleSubmit"
  /\ isLoginMode
  /\ formData.email # ""
  /\ formData.password # formData.confirmPassword
  /\ loginAlert = AlertOf("Success", "Login successful!")

----------------------------------------------------------------------------
\* C27: currentSkillIndex is always one of 0..6, the indices of skills; a pan
\* that ends with translationX < -50 moves it to the next skill and leaves it
\* at the last, one that ends with translationX > 50 moves it to the previous
\* skill and leaves it at the first, any other pan leaves it as it was, and
\* a navigation dot sets it to the dot's index.
C27_SkillIndexValid ==
  [][ /\ currentSkillIndex' \in 0 .. 6
      /\ currentSkillIndex' \in 0 .. (Len(skills) - 1)
      /\ lastOp'.op = "panEnd"
           => currentSkillIndex' =
                IF lastOp'.x < -50
                  THEN (IF currentSkillIndex = 6 THEN 6
                        ELSE currentSkillIndex + 1)
                ELSE IF lastOp'.x > 50
                  THEN (IF currentSkillIndex = 0 THEN 0
                        ELSE currentSkillIndex - 1)
                ELSE currentSkillIndex
      /\ lastOp'.op = "navDot" => currentSkillIndex' = lastOp'.x ]_vars

\* a pan to the left has ended on the last skill
C27_Witness ==
  /\ lastOp.op = "panEnd"
  /\ lastOp.x = -120
  /\ lastOp.v = 6
  /\ currentSkillIndex = 6
  /\ translateX.running

----------------------------------------------------------------------------
\* C28: for both auto-hiding headers the target position is 0 initially and
\* after each scroll event it follows from that event and the previous
\* offset: a decrease of the offset sets it to 0, an increase to an offset
\* above the threshold (80 for the global header, 50 for the home tab
\* header) sets it to -80, any other event leaves it as it was; so it is
\* always 0 or -80, and it is -80 only while the offset is above the
\* threshold.
C28_HeaderTarget ==
  /\ globalTranslateY.toValue = 0
  /\ tabTranslateY.toValue = 0
  /\ [][ /\ lastOp'.op = "globalScroll"
              => globalTranslateY'.toValue =
                   IF lastOp'.x < globalLastScrollY THEN 0
                   ELSE IF lastOp'.x > globalLastScrollY /\ lastOp'.x > 80
                     THEN -80
                   ELSE globalTranslateY.toValue
         /\ lastOp'.op = "handleScroll"
              => tabTranslateY'.toValue =
                   IF lastOp'.x < tabLastScrollY THEN 0
                   ELSE IF lastOp'.x > tabLastScrollY /\ lastOp'.x > 50
                     THEN -80
                   ELSE tabTranslateY.toValue
         /\ lastOp'.op \notin {"globalScroll", "handleScroll"}
              => /\ globalTranslateY'.toValue = globalTranslateY.toValue
                 /\ tabTranslateY'.toValue = tabTranslateY.toValue
         /\ globalTranslateY'.toValue \in {0, -80}
         /\ tabTranslateY'.toValue \in {0, -80}
         /\ globalTranslateY'.toValue = -80 => globalLastScrollY' > 80
         /\ tabTranslateY'.toValue = -80 => tabLastScrollY' > 50 ]_vars

\* the tab header has been hidden by a scroll down past 50 and stays hidden
\* through a scroll event that does not move, while the global header is
\* shown again after a scroll up
C28_Witness ==
  /\ lastOp.op = "handleScroll"
  /\ lastOp.x = 51
  /\ lastOp.v = 51
  /\ tabTranslateY.toValue = -80
  /\ globalTranslateY.toValue = 0
  /\ globalTranslateY.value = -80
  /\ globalLastScrollY = 81

====
